---- MODULE Spec2Model ----
(***************************************************************************)
(* Model of server/src/editor.rs: the relay core (spawn_server), the       *)
(* session actors (spawn_client) with their supervisor task and two pumps, *)
(* the per-session mailbox (tokio mpsc, try_send), the command queue       *)
(* (tokio mpsc, send().await) and the broadcast bus (tokio broadcast).     *)
(***************************************************************************)
EXTENDS Integers, Sequences, FiniteSets, TLC

\* ------------------------------------------------------------------ bounds
MaxFrames   == 3      \* frames read from all peer streams together
QueueCap    == 2      \* capacity of the command queue (editor.rs:248, scaled down)
MailboxCap  == 1      \* capacity of a mailbox (editor.rs:106, scaled down)
BroadcastCap == 1     \* capacity of the broadcast ring (editor.rs:247, scaled down)

\* The sessions the accept layer may spawn: S1 and S2 of the scenarios.
Sessions == {1, 2}

\* What a binary frame's bytes make protocol.handle do (editor.rs:325):
\*   "bad"    the handler returns Err
\*   "query"  the handler returns Ok with one reply and leaves the state alone
\*   "update" the handler mutates the document and returns Ok with no reply
InputKinds == {"bad", "query", "update"}
\* A frame read from the stream: Message::Binary(input) or any other message.
Frames == InputKinds \cup {"other"}

VARIABLES
    core,      \* the server task: "Running", "Stopped" (Stop) or "Panicked"
    queue,     \* the mpsc command queue of ToServerMessage
    clients,   \* ServerData.clients: the ids with a ClientHandle in the map
    doc,       \* ServerData.awareness: number of updates applied to the document
    hdl,       \* where each session's ClientHandle is
    gauge,     \* editor.connections.count
    mailbox,   \* per session: the mpsc queue of FromServerMessage
    bbuf,      \* per session: broadcast messages its receiver has not read yet
    lagged,    \* per session: its broadcast receiver was overrun
    sup,       \* per session: position of the supervisor task (kill_handle)
    inp,       \* per session: position of connection_receive_loop
    inFrame,   \* per session: the input the receive loop is submitting
    outp,      \* per session: position of connection_send_loop
    wire,      \* per session: the payloads written to its websocket
    werr,      \* per session: a websocket write of its send loop has failed
    lagSeen,   \* per session: its send loop got Err(Lagged) from the bus
    subAt,     \* per session: document version when it subscribed to the bus
    leaves,    \* per session: Leave commands it has enqueued
    frames,    \* frames read so far (bounded by MaxFrames)
    stopSent,  \* a Stop command has been submitted
    handled,   \* per session: "none", "failed" once the handler rejected one of its
               \* inputs, "recovered" once a later input of it was answered
    full,      \* per session: a try_send to its mailbox failed because it was full
    extLeave,  \* a holder of the ServerHandle has submitted a Leave of its own
    lateLeave, \* the Core has processed a Leave for an id that was not in the map
    inSeq      \* per session: position, among the frames read, of the one being submitted

vars == <<core, queue, clients, doc, hdl, gauge, mailbox, bbuf, lagged, sup, inp,
          inFrame, outp, wire, werr, lagSeen, subAt, leaves, frames, stopSent,
          handled, full, extLeave, lateLeave, inSeq>>

\* ------------------------------------------------------------------ messages
\* seq is the position the frame of a Message had among the frames read.
Join(s)          == [type |-> "Join", id |-> s, input |-> "none", seq |-> 0]
Leave(s)         == [type |-> "Leave", id |-> s, input |-> "none", seq |-> 0]
Message(s, i, n) == [type |-> "Message", id |-> s, input |-> i, seq |-> n]
Stop             == [type |-> "Stop", id |-> 0, input |-> "none", seq |-> 0]

\* BroadcastMessage::Binary: the encoded delta of the n-th document update.
Delta(n) == <<"delta", n>>
\* FromServerMessage::Binary: a reply encoded from the document at version n.
Reply(n) == <<"reply", n>>

Init ==
    /\ core = "Running"
    /\ queue = <<>>
    /\ clients = {}
    /\ doc = 0
    /\ hdl = [s \in Sessions |-> "none"]
    /\ gauge = 0
    /\ mailbox = [s \in Sessions |-> <<>>]
    /\ bbuf = [s \in Sessions |-> <<>>]
    /\ lagged = [s \in Sessions |-> FALSE]
    /\ sup = [s \in Sessions |-> "unspawned"]
    /\ inp = [s \in Sessions |-> "none"]
    /\ inFrame = [s \in Sessions |-> "none"]
    /\ outp = [s \in Sessions |-> "none"]
    /\ wire = [s \in Sessions |-> <<>>]
    /\ werr = [s \in Sessions |-> FALSE]
    /\ lagSeen = [s \in Sessions |-> FALSE]
    /\ subAt = [s \in Sessions |-> 0]
    /\ leaves = [s \in Sessions |-> 0]
    /\ frames = 0
    /\ stopSent = FALSE
    /\ handled = [s \in Sessions |-> "none"]
    /\ full = [s \in Sessions |-> FALSE]
    /\ extLeave = FALSE
    /\ lateLeave = FALSE
    /\ inSeq = [s \in Sessions |-> 0]

\* ------------------------------------------------------------------ helpers
\* mpsc Sender::send: the command goes to the back of the queue.
EnqueueFront(q, m) == <<m>> \o q
Enqueue(q, m) == Append(q, m)

Room == Len(queue) < QueueCap

\* A task that has run to its end or died of a panic: its JoinHandle is ready.
Finished(p) == p \in {"done", "panicked"}

\* Drop for ClientHandle, for every handle of the set D: the gauge goes down by
\* one per handle and join.abort() cancels the supervisor task, which is the
\* only task the handle knows. The pumps are separate tasks whose JoinHandles
\* live in the supervisor's future: dropping them detaches the pumps.
DropGaugePerCommand(D) == gauge - 1
DropGauge(D) == gauge - Cardinality(D)
DropHdl(D)   == [s \in Sessions |-> IF s \in D THEN "dropped" ELSE hdl[s]]
DropSup(D)   == [s \in Sessions |->
                   IF s \in D /\ sup[s] \in {"select", "leave"} THEN "aborted" ELSE sup[s]]

\* ClientHandle::send: try_send on the session's mailbox. It fails at once when
\* the mailbox is full or its receiver is gone, and the caller drops the message.
TrySendUnbounded(mb, open, msg) == IF open THEN Append(mb, msg) ELSE mb
TrySend(mb, open, msg) == IF open /\ Len(mb) < MailboxCap THEN Append(mb, msg) ELSE mb

\* protocol.handle(&awareness, &input) at document version d.
Handle(input, d) ==
    CASE input = "query"  -> [ok |-> TRUE,  replies |-> <<Reply(d)>>, mutates |-> FALSE]
      [] input = "update" -> [ok |-> TRUE,  replies |-> <<>>,         mutates |-> TRUE]
      [] OTHER            -> [ok |-> FALSE, replies |-> <<>>,         mutates |-> FALSE]

\* The reply loop of the Message arm: every reply of an Ok result is try_sent
\* to the sender's mailbox; an Err result sends nothing.
RECURSIVE SendAll(_, _, _)
SendAll(mb, open, msgs) ==
    IF msgs = <<>> THEN mb
    ELSE SendAll(TrySend(mb, open, Head(msgs)), open, Tail(msgs))

DeliverErrorReply(mb, open, res) ==
    IF res.ok THEN SendAll(mb, open, res.replies) ELSE TrySend(mb, open, Reply(0))
Deliver(mb, open, res) ==
    IF res.ok THEN SendAll(mb, open, res.replies) ELSE mb

\* The mailbox's receiver lives in ClientData until the send loop ends.
MailboxOpen(s) == sup[s] = "init" \/ outp[s] \in {"bcast", "mbox"}

\* The sessions whose broadcast receiver is still polled: created by subscribe()
\* in spawn_client, read by the first loop of the send loop only. Once that loop
\* has ended the receiver is never polled again and its backlog is unobservable.
Subscribers == {s \in Sessions : sup[s] = "init" \/ outp[s] = "bcast"}

\* broadcast::Sender::send: every receiver sees the message; a receiver that is
\* BroadcastCap messages behind loses its oldest one and is marked as lagged.
PublishBuf(d) ==
    [s \in Sessions |->
        IF s \notin Subscribers THEN bbuf[s]
        ELSE IF Len(bbuf[s]) < BroadcastCap THEN Append(bbuf[s], d)
        ELSE Append(Tail(bbuf[s]), d)]
PublishLag ==
    [s \in Sessions |->
        IF s \in Subscribers /\ Len(bbuf[s]) >= BroadcastCap THEN TRUE ELSE lagged[s]]

\* ------------------------------------------------------------------ session actor
\* spawn_client: gauge, mailbox, subscription, supervisor task, handle through
\* the oneshot channel.
SpawnClient(s) ==
    /\ sup[s] = "unspawned"
    /\ sup' = [sup EXCEPT ![s] = "init"]
    /\ hdl' = [hdl EXCEPT ![s] = "task"]
    /\ gauge' = gauge + 1
    /\ subAt' = [subAt EXCEPT ![s] = doc]
    /\ UNCHANGED <<core, queue, clients, doc, mailbox, bbuf, lagged, inp, inFrame, inSeq,
                   outp, wire, werr, lagSeen, leaves, frames, stopSent, handled, full, extLeave, lateLeave>>

\* ServerHandle::send on a closed command queue: the message comes back in the
\* error, is dropped, and the caller panics.
\* The supervisor receives its handle, sends Join(handle) and spawns both pumps.
SupJoinPumpsFirst(s) ==
    /\ sup[s] = "init"
    /\ IF inp[s] = "none"
         THEN /\ inp' = [inp EXCEPT ![s] = "read"]
              /\ outp' = [outp EXCEPT ![s] = "bcast"]
              /\ UNCHANGED <<queue, hdl, sup, gauge, bbuf, lagged>>
         ELSE \/ /\ core = "Running"
                 /\ Room
                 /\ queue' = Enqueue(queue, Join(s))
                 /\ hdl' = [hdl EXCEPT ![s] = "queue"]
                 /\ sup' = [sup EXCEPT ![s] = "select"]
                 /\ UNCHANGED <<inp, outp, gauge, bbuf, lagged>>
              \/ /\ core # "Running"
                 /\ hdl' = DropHdl({s})
                 /\ gauge' = DropGauge({s})
                 /\ sup' = [sup EXCEPT ![s] = "panickedJoin"]
                 /\ bbuf' = [bbuf EXCEPT ![s] = <<>>]
                 /\ lagged' = [lagged EXCEPT ![s] = FALSE]
                 /\ UNCHANGED <<queue, inp, outp>>
    /\ UNCHANGED <<core, clients, doc, mailbox, inFrame, inSeq, wire, werr, lagSeen, subAt,
                   leaves, frames, stopSent, handled, full, extLeave, lateLeave>>

SupJoin(s) ==
    /\ sup[s] = "init"
    /\ \/ /\ core = "Running"
          /\ Room
          /\ queue' = Enqueue(queue, Join(s))
          /\ hdl' = [hdl EXCEPT ![s] = "queue"]
          /\ sup' = [sup EXCEPT ![s] = "select"]
          /\ inp' = [inp EXCEPT ![s] = "read"]
          /\ outp' = [outp EXCEPT ![s] = "bcast"]
          /\ UNCHANGED <<gauge, bbuf, lagged>>
       \/ /\ core # "Running"
          /\ hdl' = DropHdl({s})
          /\ gauge' = DropGauge({s})
          /\ sup' = [sup EXCEPT ![s] = "panickedJoin"]
          /\ bbuf' = [bbuf EXCEPT ![s] = <<>>]
          /\ lagged' = [lagged EXCEPT ![s] = FALSE]
          /\ UNCHANGED <<queue, inp, outp>>
    /\ UNCHANGED <<core, clients, doc, mailbox, inFrame, inSeq, wire, werr, lagSeen, subAt,
                   leaves, frames, stopSent, handled, full, extLeave, lateLeave>>

\* connection_receive_loop: one frame from the stream. A binary frame is
\* submitted next; any other message is only logged.
RecvFrame(s, f) ==
    /\ inp[s] = "read"
    /\ frames < MaxFrames
    /\ frames' = frames + 1
    /\ IF f \in InputKinds
         THEN /\ inp' = [inp EXCEPT ![s] = "submit"]
              /\ inFrame' = [inFrame EXCEPT ![s] = f]
              /\ inSeq' = [inSeq EXCEPT ![s] = frames + 1]
         ELSE UNCHANGED <<inp, inFrame, inSeq>>
    /\ UNCHANGED <<core, queue, clients, doc, hdl, gauge, mailbox, bbuf, lagged, sup,
                   outp, wire, werr, lagSeen, subAt, leaves, stopSent, handled, full,
                   extLeave, lateLeave>>

\* connection_receive_loop: the stream ends (None) or yields Err: the loop ends.
RecvEnd(s) ==
    /\ inp[s] = "read"
    /\ inp' = [inp EXCEPT ![s] = "done"]
    /\ UNCHANGED <<core, queue, clients, doc, hdl, gauge, mailbox, bbuf, lagged, sup,
                   inFrame, inSeq, outp, wire, werr, lagSeen, subAt, leaves, frames, stopSent,
                   handled, full, extLeave, lateLeave>>

\* connection_receive_loop: server_handle.send(Message(id, input)).await. A pump
\* whose abort was requested in the middle of this step still completes it and
\* is cancelled at its next suspension.
SubmitInbound(s) ==
    /\ inp[s] \in {"submit", "aborting"}
    /\ \/ /\ core = "Running"
          /\ Room
          /\ queue' = Enqueue(queue, Message(s, inFrame[s], inSeq[s]))
          /\ inp' = [inp EXCEPT ![s] = IF inp[s] = "aborting" THEN "cancelled" ELSE "read"]
       \/ /\ core # "Running"
          /\ inp' = [inp EXCEPT ![s] = "panicked"]
          /\ UNCHANGED queue
    /\ inFrame' = [inFrame EXCEPT ![s] = "none"]
    /\ inSeq' = [inSeq EXCEPT ![s] = 0]
    /\ UNCHANGED <<core, clients, doc, hdl, gauge, mailbox, bbuf, lagged, sup, outp,
                   wire, werr, lagSeen, subAt, leaves, frames, stopSent, handled, full,
                   extLeave, lateLeave>>

\* The abort of a receive loop that is suspended in its send takes effect there.
CancelInbound(s) ==
    /\ inp[s] = "aborting"
    /\ inp' = [inp EXCEPT ![s] = "cancelled"]
    /\ inFrame' = [inFrame EXCEPT ![s] = "none"]
    /\ inSeq' = [inSeq EXCEPT ![s] = 0]
    /\ UNCHANGED <<core, queue, clients, doc, hdl, gauge, mailbox, bbuf, lagged, sup,
                   outp, wire, werr, lagSeen, subAt, leaves, frames, stopSent, handled,
                   full, extLeave, lateLeave>>

\* connection_send_loop, first loop: broadcast_receiver.recv() then a websocket
\* write. Err(Lagged) or a failed write leaves this loop, and the second loop,
\* on the mailbox, starts.
SendBroadcast(s, ok) ==
    /\ outp[s] = "bcast"
    /\ \/ /\ lagged[s]
          /\ lagSeen' = [lagSeen EXCEPT ![s] = TRUE]
          /\ outp' = [outp EXCEPT ![s] = "mbox"]
          /\ bbuf' = [bbuf EXCEPT ![s] = <<>>]
          /\ UNCHANGED <<wire, werr>>
       \/ /\ ~lagged[s]
          /\ bbuf[s] # <<>>
          /\ IF ok
               THEN /\ wire' = [wire EXCEPT ![s] = Append(@, Head(bbuf[s]))]
                    /\ bbuf' = [bbuf EXCEPT ![s] = Tail(@)]
                    /\ UNCHANGED <<outp, werr>>
               ELSE /\ werr' = [werr EXCEPT ![s] = TRUE]
                    /\ outp' = [outp EXCEPT ![s] = "mbox"]
                    /\ bbuf' = [bbuf EXCEPT ![s] = <<>>]
                    /\ UNCHANGED wire
          /\ UNCHANGED lagSeen
    /\ lagged' = [lagged EXCEPT ![s] = FALSE]
    /\ UNCHANGED <<core, queue, clients, doc, hdl, gauge, mailbox, sup, inp, inFrame, inSeq,
                   subAt, leaves, frames, stopSent, handled, full, extLeave, lateLeave>>

\* connection_send_loop, second loop: server_receiver.recv() then a websocket
\* write. A failed write or a closed mailbox (None) ends the loop and the task.
SendMailbox(s, ok) ==
    /\ outp[s] = "mbox"
    /\ \/ /\ mailbox[s] # <<>>
          /\ IF ok
               THEN /\ wire' = [wire EXCEPT ![s] = Append(@, Head(mailbox[s]))]
                    /\ mailbox' = [mailbox EXCEPT ![s] = Tail(@)]
                    /\ UNCHANGED <<outp, werr>>
               ELSE /\ werr' = [werr EXCEPT ![s] = TRUE]
                    /\ outp' = [outp EXCEPT ![s] = "done"]
                    /\ mailbox' = [mailbox EXCEPT ![s] = <<>>]
                    /\ UNCHANGED wire
       \/ /\ mailbox[s] = <<>>
          /\ hdl[s] = "dropped"
          /\ outp' = [outp EXCEPT ![s] = "done"]
          /\ UNCHANGED <<wire, werr, mailbox>>
    /\ UNCHANGED <<core, queue, clients, doc, hdl, gauge, bbuf, lagged, sup, inp,
                   inFrame, inSeq, lagSeen, subAt, leaves, frames, stopSent, handled, full, extLeave, lateLeave>>

\* JoinHandle::abort on the receive loop: a loop waiting for a frame is
\* cancelled there; one that holds a frame is cancelled at its next suspension.
AbortInbound(p) ==
    CASE p = "read"   -> "cancelled"
      [] p = "submit" -> "aborting"
      [] OTHER        -> p
\* JoinHandle::abort on the send loop, which suspends in every step.
AbortOutbound(p) == IF p \in {"bcast", "mbox"} THEN "cancelled" ELSE p

\* select!: the first pump to finish makes the supervisor abort the other.
SupSelect(s) ==
    /\ sup[s] = "select"
    /\ \/ /\ Finished(outp[s])
          /\ inp' = [inp EXCEPT ![s] = AbortInbound(@)]
          /\ UNCHANGED <<outp, mailbox, bbuf, lagged>>
       \/ /\ Finished(inp[s])
          /\ outp' = [outp EXCEPT ![s] = AbortOutbound(@)]
          /\ mailbox' = [mailbox EXCEPT ![s] = <<>>]
          /\ bbuf' = [bbuf EXCEPT ![s] = <<>>]
          /\ lagged' = [lagged EXCEPT ![s] = FALSE]
          /\ UNCHANGED inp
    /\ sup' = [sup EXCEPT ![s] = "leave"]
    /\ UNCHANGED <<core, queue, clients, doc, hdl, gauge, inFrame, inSeq, wire, werr, lagSeen,
                   subAt, leaves, frames, stopSent, handled, full, extLeave, lateLeave>>

\* data.server_handle.send(Leave(id)).await, the supervisor's last statement.
SupLeave(s) ==
    /\ sup[s] = "leave"
    /\ \/ /\ core = "Running"
          /\ Room
          /\ queue' = Enqueue(queue, Leave(s))
          /\ leaves' = [leaves EXCEPT ![s] = @ + 1]
          /\ sup' = [sup EXCEPT ![s] = "done"]
       \/ /\ core # "Running"
          /\ sup' = [sup EXCEPT ![s] = "panickedLeave"]
          /\ UNCHANGED <<queue, leaves>>
    /\ UNCHANGED <<core, clients, doc, hdl, gauge, mailbox, bbuf, lagged, inp, inFrame, inSeq,
                   outp, wire, werr, lagSeen, subAt, frames, stopSent, handled, full, extLeave, lateLeave>>

\* ------------------------------------------------------------------ relay core
\* The handles the server task owns: those in the map and those still inside a
\* queued Join. They are all dropped when the task ends and its receiver and
\* ServerData go out of scope.
QueuedJoins == {s \in Sessions : \E i \in 1..Len(queue) : queue[i] = Join(s)}
Owned == clients \cup QueuedJoins

\* The server task ends (break on Stop, or unwinding from a panic).
CoreEndsKeepsRecords(how) ==
    /\ core' = how
    /\ queue' = <<>>
    /\ UNCHANGED <<clients, hdl, gauge, sup>>
CoreEnds(how) ==
    /\ core' = how
    /\ queue' = <<>>
    /\ clients' = {}
    /\ hdl' = DropHdl(Owned)
    /\ gauge' = DropGauge(Owned)
    /\ sup' = DropSup(Owned)

\* The handshake payload of the Join arm: EncoderV1::new().to_vec(), the bytes
\* of an encoder nothing was written to.
HandshakeSyncStep == Reply(0)
HandshakePayload == <<>>

\* Join arm: the handshake payload is sent to the new session's mailbox unless
\* it is empty; the handle is inserted in the map.
CoreJoin ==
    /\ core = "Running"
    /\ queue # <<>>
    /\ Head(queue).type = "Join"
    /\ queue' = Tail(queue)
    /\ mailbox' = IF HandshakePayload # <<>>
                    THEN [mailbox EXCEPT ![Head(queue).id] =
                            TrySend(@, MailboxOpen(Head(queue).id), HandshakePayload)]
                    ELSE mailbox
    /\ clients' = clients \cup {Head(queue).id}
    /\ hdl' = [hdl EXCEPT ![Head(queue).id] = "registry"]
    /\ UNCHANGED <<core, doc, gauge, bbuf, lagged, sup, inp, inFrame, inSeq, outp, wire, werr,
                   lagSeen, subAt, leaves, frames, stopSent, handled, full, extLeave,
                   lateLeave>>

\* Message arm: protocol.handle runs first (a document update makes the
\* observer publish its delta), then clients.get_mut(&from_id).unwrap(), which
\* panics for an id that is not in the map, then the reply loop.
CoreMessage ==
    /\ core = "Running"
    /\ queue # <<>>
    /\ Head(queue).type = "Message"
    /\ LET s   == Head(queue).id
           res == Handle(Head(queue).input, doc)
           mb  == Deliver(mailbox[s], MailboxOpen(s), res)
       IN  /\ IF res.mutates
                THEN /\ doc' = doc + 1
                     /\ bbuf' = PublishBuf(Delta(doc + 1))
                     /\ lagged' = PublishLag
                ELSE UNCHANGED <<doc, bbuf, lagged>>
           /\ IF s \in clients
                THEN /\ mailbox' = [mailbox EXCEPT ![s] = mb]
                     /\ queue' = Tail(queue)
                     /\ handled' = [handled EXCEPT ![s] =
                          IF ~res.ok THEN "failed"
                          ELSE IF @ = "failed" /\ mb # mailbox[s] THEN "recovered"
                          ELSE @]
                     /\ full' = [full EXCEPT ![s] =
                          @ \/ (res.ok /\ res.replies # <<>> /\ MailboxOpen(s)
                                  /\ Len(mailbox[s]) >= MailboxCap)]
                     /\ UNCHANGED <<core, clients, hdl, gauge, sup>>
                ELSE /\ CoreEnds("Panicked")
                     /\ UNCHANGED <<mailbox, handled, full, extLeave, lateLeave>>
    /\ UNCHANGED <<inp, inFrame, inSeq, outp, wire, werr, lagSeen, subAt, leaves, frames,
                   stopSent, extLeave, lateLeave>>

\* Leave arm: clients.remove(&id); a removed handle is dropped.
CoreLeaveUnwrap ==
    /\ core = "Running"
    /\ queue # <<>>
    /\ Head(queue).type = "Leave"
    /\ IF Head(queue).id \in clients
         THEN /\ clients' = clients \ {Head(queue).id}
              /\ hdl' = DropHdl({Head(queue).id})
              /\ gauge' = DropGauge({Head(queue).id})
              /\ sup' = DropSup({Head(queue).id})
              /\ queue' = Tail(queue)
              /\ UNCHANGED core
         ELSE CoreEnds("Panicked")
    /\ UNCHANGED <<doc, mailbox, bbuf, lagged, inp, inFrame, inSeq, outp, wire, werr, lagSeen,
                   subAt, leaves, frames, stopSent, handled, full, extLeave, lateLeave>>
CoreLeave ==
    /\ core = "Running"
    /\ queue # <<>>
    /\ Head(queue).type = "Leave"
    /\ LET D == {Head(queue).id} \cap clients
       IN  /\ clients' = clients \ D
           /\ hdl' = DropHdl(D)
           /\ gauge' = DropGauge(D)
           /\ sup' = DropSup(D)
           /\ lateLeave' = (lateLeave \/ D = {})
    /\ queue' = Tail(queue)
    /\ UNCHANGED <<core, doc, mailbox, bbuf, lagged, inp, inFrame, inSeq, outp, wire, werr,
                   lagSeen, subAt, leaves, frames, stopSent, handled, full, extLeave>>

\* Stop arm: break out of the command loop; the task ends.
CoreStopClearsDoc ==
    /\ core = "Running"
    /\ queue # <<>>
    /\ Head(queue).type = "Stop"
    /\ CoreEnds("Stopped")
    /\ doc' = 0
    /\ UNCHANGED <<mailbox, bbuf, lagged, inp, inFrame, inSeq, outp, wire, werr, lagSeen,
                   subAt, leaves, frames, stopSent, handled, full, extLeave, lateLeave>>

CoreStop ==
    /\ core = "Running"
    /\ queue # <<>>
    /\ Head(queue).type = "Stop"
    /\ CoreEnds("Stopped")
    /\ UNCHANGED <<doc, mailbox, bbuf, lagged, inp, inFrame, inSeq, outp, wire, werr, lagSeen,
                   subAt, leaves, frames, stopSent, handled, full, extLeave, lateLeave>>

\* A holder of the ServerHandle submits Stop, once in a run.
SubmitStop ==
    /\ ~stopSent
    /\ core = "Running"
    /\ Room
    /\ queue' = Enqueue(queue, Stop)
    /\ stopSent' = TRUE
    /\ UNCHANGED <<core, clients, doc, hdl, gauge, mailbox, bbuf, lagged, sup, inp,
                   inFrame, inSeq, outp, wire, werr, lagSeen, subAt, leaves, frames, handled, full, extLeave, lateLeave>>

\* A holder of the ServerHandle submits Leave(id) for an id of its choice: a
\* forced disconnect, or a Leave for a session that is gone or never joined.
SubmitLeave(s) ==
    /\ ~extLeave
    /\ ~stopSent
    /\ core = "Running"
    /\ Room
    /\ queue' = Enqueue(queue, Leave(s))
    /\ extLeave' = TRUE
    /\ UNCHANGED <<core, clients, doc, hdl, gauge, mailbox, bbuf, lagged, sup, inp,
                   inFrame, inSeq, outp, wire, werr, lagSeen, subAt, leaves, frames, stopSent,
                   handled, full, lateLeave>>

\* ------------------------------------------------------------------ specification
Core == CoreJoin \/ CoreMessage \/ CoreLeave \/ CoreStop

Supervisor(s) == SupJoin(s) \/ SupSelect(s) \/ SupLeave(s)

Inbound(s) == (\E f \in Frames : RecvFrame(s, f)) \/ RecvEnd(s) \/ SubmitInbound(s)
                \/ CancelInbound(s)

Outbound(s) == \E ok \in BOOLEAN : SendBroadcast(s, ok) \/ SendMailbox(s, ok)

Next ==
    \/ \E s \in Sessions : SpawnClient(s)
    \/ \E s \in Sessions : SupJoin(s)
    \/ \E s \in Sessions : SupSelect(s)
    \/ \E s \in Sessions : SupLeave(s)
    \/ \E s \in Sessions, f \in Frames : RecvFrame(s, f)
    \/ \E s \in Sessions : RecvEnd(s)
    \/ \E s \in Sessions : SubmitInbound(s)
    \/ \E s \in Sessions : CancelInbound(s)
    \/ \E s \in Sessions, ok \in BOOLEAN : SendBroadcast(s, ok)
    \/ \E s \in Sessions, ok \in BOOLEAN : SendMailbox(s, ok)
    \/ CoreJoin
    \/ CoreMessage
    \/ CoreLeave
    \/ CoreStop
    \/ SubmitStop

Spec == Init /\ [][Next]_vars

\* The same program with a holder of the ServerHandle that may also submit a
\* Leave of its own.
NextAdmin == Next \/ \E s \in Sessions : SubmitLeave(s)

AdminSpec == Init /\ [][NextAdmin]_vars

\* The tokio runtime runs every task that can make progress: the server task,
\* the supervisors, a receive loop that holds a frame or has been aborted, and
\* the send loops. What the peers and the holder of the ServerHandle do (frames,
\* closing a stream, Stop, Leave) is not forced.
Fairness ==
    /\ WF_vars(Core)
    /\ \A s \in Sessions :
        /\ WF_vars(Supervisor(s))
        /\ WF_vars(SubmitInbound(s) \/ CancelInbound(s))
        /\ WF_vars(Outbound(s))

FairSpec == Spec /\ Fairness

\* ------------------------------------------------------------------ claims
Range(q) == {q[i] : i \in 1..Len(q)}

\* The send loop of s is running (in either of its loops).
OutRunning(s) == outp[s] \in {"bcast", "mbox"}

\* The step is the receive loop of s enqueueing an Inbound command.
EnqueuesInbound(s) == SubmitInbound(s) /\ queue' # queue

\* C1: processing Inbound(id, bytes) for an id that is not in the registry is a
\* no-op: the handler is not invoked (document and bus unchanged), registry and
\* mailboxes are unchanged, and the Core stays Running with the command consumed.
C1_AbsentInboundIsNoOp ==
    [][(CoreMessage /\ Head(queue).id \notin clients)
         => /\ core' = "Running"
            /\ queue' = Tail(queue)
            /\ UNCHANGED <<clients, doc, mailbox, bbuf, lagged, hdl>>]_vars

\* C2: no Inbound(id, _) is enqueued after the session's Leave(id).
C2_NoInboundAfterLeave ==
    [][\A s \in Sessions : leaves[s] > 0 => ~EnqueuesInbound(s)]_vars

\* C3: a payload on the mailbox of a session whose send loop is running is
\* eventually written to its stream (or the send loop stops).
C3_MailboxEventuallyWritten ==
    \A s \in Sessions : \A n \in 0..MaxFrames :
        (OutRunning(s) /\ Reply(n) \in Range(mailbox[s]))
            ~> (Reply(n) \in Range(wire[s]) \/ ~OutRunning(s))

\* C4: a session whose subscription reported a lag does not keep running: its
\* send loop has terminated.
C4_LagTearsDown ==
    \A s \in Sessions : lagSeen[s] => ~OutRunning(s)

\* C5: a session that submitted Join and whose supervisor has ended (normally,
\* by a panic or by the abort of a dropped handle) has submitted exactly one Leave.
C5_ExactlyOneLeave ==
    \A s \in Sessions :
        sup[s] \in {"done", "aborted", "panickedLeave"} => leaves[s] = 1

\* C6: once a session's ClientHandle is dropped, the session submits no further
\* Inbound command and writes no further payload to its stream.
C6_DropCancelsPumps ==
    [][\A s \in Sessions :
         hdl[s] = "dropped" => (wire'[s] = wire[s] /\ ~EnqueuesInbound(s))]_vars

\* A session the claim exempts: its send loop has been torn down, or never ran.
TornDown(s) == outp[s] \in {"done", "cancelled"} \/ sup[s] = "panickedJoin"

\* C7: the delta of every mutation made while a session is subscribed is
\* eventually written to that session's stream unless the session is torn down;
\* deltas appear on a stream in publish order and never pass through a mailbox.
C7_FanOutComplete ==
    /\ \A s \in Sessions : \A n \in 1..MaxFrames :
         (sup[s] # "unspawned" /\ subAt[s] < n /\ n <= doc)
             ~> (Delta(n) \in Range(wire[s]) \/ TornDown(s))
    /\ [](\A s \in Sessions : \A i, j \in 1..Len(wire[s]) :
            (i < j /\ wire[s][i][1] = "delta" /\ wire[s][j][1] = "delta")
                => wire[s][i][2] < wire[s][j][2])
    /\ [](\A s \in Sessions : \A m \in Range(mailbox[s]) : m[1] # "delta")

\* C8: after a failed stream write the send loop has ended: it attempts no
\* further write and waits on neither source.
C8_WriteErrorEndsPump ==
    \A s \in Sessions : werr[s] => outp[s] = "done"

\* C9: when the handler fails on an Inbound from a registered session, no reply
\* is placed on any mailbox, the registry is unchanged and the Core stays
\* Running; a well-formed Inbound of a session whose earlier input failed is
\* answered: its replies are appended to its mailbox when they fit.
C9_HandlerFailureKeepsSession ==
    [][(CoreMessage /\ Head(queue).id \in clients)
         => LET s   == Head(queue).id
                res == Handle(Head(queue).input, doc)
            IN  /\ core' = "Running"
                /\ clients' = clients
                /\ hdl' = hdl
                /\ ~res.ok => mailbox' = mailbox
                /\ (res.ok /\ handled[s] # "none" /\ MailboxOpen(s)
                      /\ Len(mailbox[s]) + Len(res.replies) <= MailboxCap)
                     => mailbox'[s] = mailbox[s] \o res.replies]_vars

\* A session whose input was rejected is still registered, the Core is Running,
\* and a later input of that session has put its reply on the mailbox.
C9_Witness ==
    \E s \in Sessions : handled[s] = "recovered" /\ s \in clients /\ core = "Running"

\* C10: a reply sent to a session whose mailbox already holds MailboxCap
\* messages is dropped: mailbox contents and registry are unchanged, and the
\* Core finishes the command in that same step and stays Running.
C10_FullMailboxDropsReply ==
    [][(CoreMessage /\ Head(queue).id \in clients
          /\ Len(mailbox[Head(queue).id]) >= MailboxCap)
         => /\ mailbox' = mailbox
            /\ clients' = clients
            /\ hdl' = hdl
            /\ core' = "Running"
            /\ queue' = Tail(queue)]_vars

\* The Core has dropped a reply for a session with a full mailbox; the session
\* is still registered and the Core is Running.
C10_Witness ==
    \E s \in Sessions :
        full[s] /\ s \in clients /\ Len(mailbox[s]) = MailboxCap /\ core = "Running"

\* C11: a submission through the ServerHandle while the command queue is at
\* capacity returns to the caller (the command is dropped and the caller
\* proceeds): a receive loop that holds a frame can always take its next step.
C11_FullQueueSubmitReturns ==
    \A s \in Sessions :
        (core = "Running" /\ ~Room /\ inp[s] = "submit") => ENABLED SubmitInbound(s)

\* C12: a submission after the Core has stopped returns a failure value and
\* does not end the caller abnormally: no task of a session dies of a panic.
C12_ClosedQueueSubmitFailsCleanly ==
    core = "Stopped" =>
        \A s \in Sessions :
            /\ inp[s] # "panicked"
            /\ sup[s] \notin {"panickedJoin", "panickedLeave"}

\* C13: after Stop, a session whose receive loop attempted a further submission
\* (which failed) terminates itself: its send loop eventually stops too.
C13_SessionsSelfTerminate ==
    \A s \in Sessions :
        (core = "Stopped" /\ inp[s] = "panicked") ~> ~OutRunning(s)

\* a is what is left of b after reading some of its first elements.
IsSuffix(a, b) == \E k \in 0..Len(b) : a = SubSeq(b, k + 1, Len(b))

\* C14: once Stop is processed the Core is terminal: the registry is empty, no
\* command is queued or processed, the document does not change, nothing is
\* published to the bus and nothing is placed on a mailbox (subscriptions and
\* mailboxes are only read from).
C14_StopIsTerminal ==
    /\ [](core = "Stopped" => (clients = {} /\ queue = <<>>))
    /\ [][core = "Stopped"
            => /\ core' = "Stopped"
               /\ UNCHANGED <<clients, queue, doc>>
               /\ \A s \in Sessions :
                    /\ IsSuffix(mailbox'[s], mailbox[s])
                    /\ IsSuffix(bbuf'[s], bbuf[s])]_vars

\* Stop was processed with both sessions connected, and a session has since
\* attempted a submission.
C14_Witness ==
    /\ core = "Stopped"
    /\ \A s \in Sessions : hdl[s] = "dropped" /\ sup[s] = "aborted"
    /\ \E s \in Sessions : inp[s] = "panicked"

\* C15: processing Leave(id) for an id that is not in the registry changes
\* neither registry, handles, document, mailboxes nor bus, and the Core stays
\* Running; processing Leave(id) for a registered id removes that record only.
C15_LeaveIdempotent ==
    [][CoreLeave
         => LET id == Head(queue).id
            IN  /\ core' = "Running"
                /\ IF id \in clients
                     THEN /\ clients' = clients \ {id}
                          /\ hdl'[id] = "dropped"
                          /\ \A t \in Sessions \ {id} : hdl'[t] = hdl[t]
                     ELSE UNCHANGED <<clients, hdl, gauge, sup, doc, mailbox, bbuf,
                                      lagged>>]_vars

\* A Leave for an absent id has been processed, a Leave of a registered session
\* has removed its record, and another session is still registered.
C15_Witness ==
    /\ lateLeave
    /\ core = "Running"
    /\ \E s \in Sessions : hdl[s] = "dropped" /\ leaves[s] = 1
    /\ clients # {}

\* C16 as stated: processing Join registers the session and puts one handshake
\* payload on its mailbox (when the mailbox takes it), nothing on any other
\* mailbox and nothing on the bus.
C16_JoinSendsHandshake ==
    [][CoreJoin
         => LET id == Head(queue).id
            IN  /\ clients' = clients \cup {id}
                /\ \A t \in Sessions \ {id} : mailbox'[t] = mailbox[t]
                /\ bbuf' = bbuf
                /\ (MailboxOpen(id) /\ Len(mailbox[id]) < MailboxCap)
                     => Len(mailbox'[id]) = Len(mailbox[id]) + 1]_vars

\* C16 as amended: the handshake payload the Join arm builds is empty and an
\* empty payload is not sent, so processing Join registers the session and
\* places nothing on any mailbox, publishes nothing and leaves the document
\* alone; the Core stays Running.
C16_JoinRegistersOnly ==
    [][CoreJoin
         => /\ clients' = clients \cup {Head(queue).id}
            /\ core' = "Running"
            /\ UNCHANGED <<mailbox, bbuf, lagged, doc>>]_vars

\* Both sessions have been registered and no payload has reached any of them.
C16_Witness ==
    /\ clients = Sessions
    /\ core = "Running"
    /\ \A s \in Sessions : mailbox[s] = <<>> /\ bbuf[s] = <<>> /\ wire[s] = <<>>

\* C17: the document changes only in the Core's processing of a Message
\* command, the one at the head of the queue, and by one update per command;
\* the Join, Leave and Stop arms and every step of a session's supervisor and
\* pumps leave it unchanged.
C17_SingleWriter ==
    [][doc' # doc
         => /\ CoreMessage
            /\ Head(queue).input = "update"
            /\ doc' = doc + 1
            /\ ~(\/ CoreJoin \/ CoreLeave \/ CoreStop \/ SubmitStop
                 \/ \E s \in Sessions :
                      SpawnClient(s) \/ Supervisor(s) \/ Inbound(s) \/ Outbound(s))]_vars

\* Two updates have been applied while both sessions are registered and the
\* pumps of both are running.
C17_Witness ==
    /\ doc = 2
    /\ core = "Running"
    /\ clients = Sessions
    /\ \A s \in Sessions : inp[s] = "read" /\ OutRunning(s)

\* The payloads of session s that the Core has not processed yet: the positions,
\* among the frames read, of those in the queue behind position k and of the
\* one its receive loop holds.
Unprocessed(s, k) ==
    {queue[i].seq : i \in {j \in DOMAIN queue :
                              j > k /\ queue[j].type = "Message" /\ queue[j].id = s}}
        \cup (IF inSeq[s] # 0 THEN {inSeq[s]} ELSE {})

\* C18: the Core processes the payloads of one session in the order in which
\* the session's receive loop read them: the payload it processes was read
\* before every payload of that session still unprocessed and before every
\* frame read later; the payloads of a session wait in the queue in reading
\* order, ahead of the one its pump holds; a frame that is not a payload puts
\* no command in the queue.
C18_PerSessionOrder ==
    /\ [][CoreMessage
            => /\ Head(queue).seq \in 1..frames
               /\ \A n \in Unprocessed(Head(queue).id, 1) : Head(queue).seq < n]_vars
    /\ [](\A k \in DOMAIN queue :
            queue[k].type = "Message"
                => /\ queue[k].input \in InputKinds
                   /\ \A n \in Unprocessed(queue[k].id, k) : queue[k].seq < n)
    /\ [][\A s \in Sessions :
            RecvFrame(s, "other") => UNCHANGED <<queue, inp, inFrame, inSeq>>]_vars

\* Two payloads of one session wait in the queue, the first and the third frame
\* read, while the other session holds the second frame read.
C18_Witness ==
    /\ core = "Running"
    /\ clients = Sessions
    /\ Len(queue) = 2
    /\ queue[1].type = "Message" /\ queue[2].type = "Message"
    /\ queue[1].id = queue[2].id
    /\ queue[1].seq = 1 /\ queue[2].seq = 3
    /\ \E t \in Sessions : t # queue[1].id /\ inSeq[t] = 2

\* C19: the pumps of a session start only once its Join is in the queue, no
\* Message of a session is queued ahead of its Join, and so whenever the Core
\* processes a Message of a session it has processed that session's Join
\* before (the handle has reached the map, or has been dropped from it since).
C19_JoinBeforeInbound ==
    /\ [](\A s \in Sessions : (inp[s] # "none" \/ outp[s] # "none") => hdl[s] # "task")
    /\ [](\A i, j \in DOMAIN queue :
            (i < j /\ queue[j].type = "Join") =>
                ~(queue[i].type = "Message" /\ queue[i].id = queue[j].id))
    /\ [][CoreMessage => hdl[Head(queue).id] \in {"registry", "dropped"}]_vars

\* The Core has answered a Message of one session while the Join of the other
\* is still queued and that session's receive loop already holds a payload.
C19_Witness ==
    \E s, t \in Sessions :
        /\ hdl[s] = "registry" /\ mailbox[s] # <<>>
        /\ hdl[t] = "queue" /\ inp[t] = "submit"
        /\ core = "Running"

\* The sessions whose ClientHandle exists: held by the supervisor before Join is
\* sent, travelling in a queued Join, or stored in the map.
LiveHandles == {s \in Sessions : hdl[s] \in {"task", "queue", "registry"}}

\* C20: the gauge is never negative and equals the number of sessions whose
\* ClientHandle has been created and not dropped; it goes up, by one, exactly
\* in spawn_client.
C20_GaugeCountsLiveHandles ==
    /\ [](gauge >= 0 /\ gauge = Cardinality(LiveHandles))
    /\ [][gauge' > gauge
            <=> \E s \in Sessions : SpawnClient(s) /\ gauge' = gauge + 1]_vars

\* The Core has processed a Leave for a session that was not in the map (a
\* duplicate), one session's handle has been dropped and the other is counted.
C20_Witness ==
    /\ lateLeave
    /\ gauge = 1
    /\ \E s, t \in Sessions :
         /\ hdl[s] = "dropped" /\ leaves[s] = 1
         /\ hdl[t] = "registry"

====
